---- MODULE Spec2Model ----
(***************************************************************************)
(* A model of the personal-finance ETL pipeline: the rule-based            *)
(* categorisation engine and the row transformer (transform.py), the two   *)
(* validation gates, the clean_transaction_data pipeline, and the folder   *)
(* watcher that routes each source file (watch.py).                        *)
(*                                                                         *)
(* Text is a sequence of one-character strings, so that pattern search and *)
(* date parsing are computed character by character.  A cell of a data     *)
(* frame is a record [k, s, n]: k is the kind of value ("nan", "str",      *)
(* "num", "date", "nat"), s its text and n its number.  Amounts are        *)
(* counted in cents.                                                       *)
(***************************************************************************)
EXTENDS Integers, Sequences, FiniteSets, TLC

VARIABLES
    fn, arg, ret,            \* a single call of a row-level function
    watchFolder, processedDir, failedDir, errorLogs, store,
    queue, created, now,     \* the event source and the clock
    handler, filepath, timestamp,
    stage, df, pipe_df, clean_df, returned, error, report, rows_inserted,
    observer,                \* the observer thread that calls the handler
    arrivals                 \* every event the observer has queued, in order

rowVars  == <<fn, arg, ret>>
fsVars   == <<watchFolder, processedDir, failedDir, errorLogs>>
evVars   == <<queue, created>>
fileVars == <<filepath, timestamp>>
pipeVars == <<pipe_df, clean_df, returned, error, report, rows_inserted>>
watchVars == <<observer, arrivals>>
vars == <<fn, arg, ret, watchFolder, processedDir, failedDir, errorLogs, store,
          queue, created, now, handler, filepath, timestamp,
          stage, df, pipe_df, clean_df, returned, error, report, rows_inserted,
          observer, arrivals>>

-----------------------------------------------------------------------------
(* Bounds of the model *)

\* the longest description, in vocabulary fragments
MaxWords == 3
\* the most rows a source file holds
MaxRows == 2
\* the most create events the event source delivers
MaxFiles == 1

-----------------------------------------------------------------------------
(* Cells *)

NaN      == [k |-> "nan", s |-> <<>>, n |-> 0]
NaT      == [k |-> "nat", s |-> <<>>, n |-> 0]
Str(t)   == [k |-> "str", s |-> t, n |-> 0]
Num(x)   == [k |-> "num", s |-> <<>>, n |-> x]
Date(y, m, d) == [k |-> "date", s |-> <<>>, n |-> y * 10000 + m * 100 + d]

\* pd.isna
isna(v) == v.k \in {"nan", "nat"}

Digit == <<"0", "1", "2", "3", "4", "5", "6", "7", "8", "9">>

IsDigit(c) == \E i \in 1..10 : Digit[i] = c

DigitVal(c) == (CHOOSE i \in 1..10 : Digit[i] = c) - 1

RECURSIVE NatText(_)
NatText(x) == IF x < 10 THEN <<Digit[x + 1]>>
              ELSE NatText(x \div 10) \o <<Digit[(x % 10) + 1]>>

\* str() of a cell, as categorize_transaction applies it to a description
str(v) == IF v.k = "str" THEN v.s
          ELSE IF v.n < 0 THEN <<"-">> \o NatText(0 - v.n) ELSE NatText(v.n)

-----------------------------------------------------------------------------
(* Pattern search: re.compile(..., re.IGNORECASE).search *)

DOTSTAR == "DOTSTAR"
WSSTAR  == "WSSTAR"

UpperOf ==
    ("a" :> "A") @@ ("b" :> "B") @@ ("c" :> "C") @@ ("d" :> "D") @@ ("e" :> "E") @@ ("f" :> "F") @@
    ("g" :> "G") @@ ("h" :> "H") @@ ("i" :> "I") @@ ("j" :> "J") @@ ("k" :> "K") @@ ("l" :> "L") @@
    ("m" :> "M") @@ ("n" :> "N") @@ ("o" :> "O") @@ ("p" :> "P") @@ ("q" :> "Q") @@ ("r" :> "R") @@
    ("s" :> "S") @@ ("t" :> "T") @@ ("u" :> "U") @@ ("v" :> "V") @@ ("w" :> "W") @@ ("x" :> "X") @@
    ("y" :> "Y") @@ ("z" :> "Z")

\* re.IGNORECASE: the patterns are written in upper case, and a letter of
\* the text is compared in upper case
Upper(c) == IF c \in DOMAIN UpperOf THEN UpperOf[c] ELSE c

\* \s
IsSpace(c) == c \in {" ", "\t", "\n", "\r", "\f"}

\* . without DOTALL
IsDot(c) == c # "\n"

\* does the alternative alt, from its k-th token on, match text at position i
RECURSIVE MatchAt(_, _, _, _)
MatchAt(alt, k, text, i) ==
    IF k > Len(alt) THEN TRUE
    ELSE IF alt[k] = DOTSTAR
    THEN \E j \in i..(Len(text) + 1) :
            /\ \A x \in i..(j - 1) : IsDot(text[x])
            /\ MatchAt(alt, k + 1, text, j)
    ELSE IF alt[k] = WSSTAR
    THEN \E j \in i..(Len(text) + 1) :
            /\ \A x \in i..(j - 1) : IsSpace(text[x])
            /\ MatchAt(alt, k + 1, text, j)
    ELSE /\ i <= Len(text)
         /\ Upper(text[i]) = alt[k]
         /\ MatchAt(alt, k + 1, text, i + 1)

\* pattern.search(text): some alternative matches at some position
search(pattern, text) ==
    \E a \in 1..Len(pattern) : \E i \in 1..(Len(text) + 1) :
        MatchAt(pattern[a], 1, text, i)

\* config.CATEGORY_PATTERNS, in declaration order
CATEGORY_PATTERNS == <<
    [label |-> "Income", pattern |-> <<
        <<"P", "A", "Y", "C", "H", "E", "C", "K">>,
        <<"S", "A", "L", "A", "R", "Y">>,
        <<"D", "E", "P", "O", "S", "I", "T", DOTSTAR, "E", "M", "P", "L", "O", "Y", "E", "R">>,
        <<"D", "D", WSSTAR, "-">>,
        <<"D", "I", "R", "E", "C", "T", WSSTAR, "D", "E", "P", "O", "S", "I", "T">> >>],
    [label |-> "Food & Dining", pattern |-> <<
        <<"S", "T", "A", "R", "B", "U", "C", "K", "S">>,
        <<"S", "B", "X">>,
        <<"C", "H", "I", "P", "O", "T", "L", "E">>,
        <<"7", "-", "E", "L", "E", "V", "E", "N">>,
        <<"7", "-", "1", "1">>,
        <<"C", "O", "F", "F", "E", "E">>,
        <<"R", "E", "S", "T", "A", "U", "R", "A", "N", "T">>,
        <<"S", "A", "F", "A">>,
        <<"C", "H", "O", "W", "M", "E", "I", "N">>,
        <<"K", "H", "A", "N", "A">> >>],
    [label |-> "Entertainment", pattern |-> <<
        <<"N", "E", "T", "F", "L", "I", "X">>,
        <<"S", "P", "O", "T", "I", "F", "Y">>,
        <<"H", "U", "L", "U">>,
        <<"D", "I", "S", "N", "E", "Y">> >>],
    [label |-> "Transportation", pattern |-> <<
        <<"U", "B", "E", "R">>,
        <<"L", "Y", "F", "T">>,
        <<"S", "H", "E", "L", "L">>,
        <<"F", "U", "E", "L">>,
        <<"G", "A", "S">>,
        <<"I", "N", "D", "R", "I", "V", "E">> >>],
    [label |-> "Groceries", pattern |-> <<
        <<"W", "H", "O", "L", "E", WSSTAR, "F", "O", "O", "D", "S">>,
        <<"W", "F", "M">>,
        <<"T", "R", "A", "D", "E", "R", WSSTAR, "J", "O", "E">>,
        <<"C", "O", "S", "T", "C", "O">> >>],
    [label |-> "Bills", pattern |-> <<
        <<"R", "E", "N", "T">>,
        <<"L", "A", "N", "D", "L", "O", "R", "D">>,
        <<"U", "T", "I", "L", "I", "T", "I", "E", "S">>,
        <<"E", "L", "E", "C", "T", "R", "I", "C">>,
        <<"W", "A", "T", "E", "R">> >>],
    [label |-> "Shopping", pattern |-> <<
        <<"A", "M", "Z", "N">>,
        <<"A", "M", "A", "Z", "O", "N", DOTSTAR>>,
        <<"T", "A", "R", "G", "E", "T">>,
        <<"W", "A", "L", "M", "A", "R", "T">> >>]
>>

Other == "Other"

\* the loop without its early return: the last matching rule wins
RECURSIVE LastMatchFrom(_, _)
LastMatchFrom(k, text) ==
    IF k > Len(CATEGORY_PATTERNS) THEN Other
    ELSE LET later == LastMatchFrom(k + 1, text)
         IN  IF later # Other THEN later
             ELSE IF search(CATEGORY_PATTERNS[k].pattern, text)
             THEN CATEGORY_PATTERNS[k].label
             ELSE Other

\* the for loop of categorize_transaction, from the k-th rule on
RECURSIVE FirstMatchFrom(_, _)
FirstMatchFrom(k, text) ==
    IF k > Len(CATEGORY_PATTERNS) THEN Other
    ELSE IF search(CATEGORY_PATTERNS[k].pattern, text)
    THEN CATEGORY_PATTERNS[k].label
    ELSE FirstMatchFrom(k + 1, text)

\* the function without its final return: no match gives None
categorize_NoDefault(description) ==
    IF isna(description) THEN Other
    ELSE IF FirstMatchFrom(1, str(description)) = Other THEN "None"
    ELSE FirstMatchFrom(1, str(description))

categorize_transaction(description) ==
    IF isna(description) THEN Other
    ELSE FirstMatchFrom(1, str(description))

-----------------------------------------------------------------------------
(* Transaction type *)

TypeError == "TypeError"

\* the first comparison written >=: a zero amount is a Credit
derive_ZeroIsCredit(amount) ==
    IF isna(amount) THEN "Unknown"
    ELSE IF amount.k = "str" THEN TypeError
    ELSE IF amount.n >= 0 THEN "Credit"
    ELSE "Debit"

\* a text amount is neither missing nor comparable with 0: the comparison
\* amount > 0 raises TypeError
derive_transaction_type(amount) ==
    IF isna(amount) THEN "Unknown"
    ELSE IF amount.k = "str" THEN TypeError
    ELSE IF amount.n > 0 THEN "Credit"
    ELSE IF amount.n < 0 THEN "Debit"
    ELSE "Neutral"

-----------------------------------------------------------------------------
(* Dates: pd.to_datetime(..., format = DATE_FORMAT, errors = 'coerce') *)

\* the first and the last calendar day a nanosecond timestamp can hold
MinDate == 16770922
MaxDate == 22620411

IsLeap(y) == (y % 4 = 0 /\ y % 100 # 0) \/ y % 400 = 0

DaysInMonth(y, m) ==
    IF m = 2 THEN (IF IsLeap(y) THEN 29 ELSE 28)
    ELSE IF m \in {4, 6, 9, 11} THEN 30 ELSE 31

AllDigits(t) == \A i \in 1..Len(t) : IsDigit(t[i])

RECURSIVE TextVal(_)
TextVal(t) == IF t = <<>> THEN 0
              ELSE 10 * TextVal(SubSeq(t, 1, Len(t) - 1)) + DigitVal(t[Len(t)])

\* %m: 1[0-2]|0[1-9]|[1-9]
IsMonthField(t) == /\ Len(t) \in {1, 2}
                   /\ AllDigits(t)
                   /\ TextVal(t) \in 1..12

\* %d: 3[0-1]|[1-2]\d|0[1-9]|[1-9]| [1-9]
IsDayField(t) ==
    \/ /\ Len(t) \in {1, 2}
       /\ AllDigits(t)
       /\ TextVal(t) \in 1..31
    \/ /\ Len(t) = 2
       /\ t[1] = " "
       /\ IsDigit(t[2])
       /\ DigitVal(t[2]) \in 1..9

DayVal(t) == IF t[1] = " " THEN DigitVal(t[2]) ELSE TextVal(t)

\* %Y: \d\d\d\d
IsYearField(t) == Len(t) = 4 /\ AllDigits(t)

\* the ways to read text as <month>/<day>/<year>: the lengths of the month
\* and the day field
Splits(text) ==
    { <<lm, ld>> \in {1, 2} \X {1, 2} :
        /\ Len(text) = lm + ld + 6
        /\ text[lm + 1] = "/"
        /\ text[lm + ld + 2] = "/"
        /\ IsMonthField(SubSeq(text, 1, lm))
        /\ IsDayField(SubSeq(text, lm + 2, lm + ld + 1))
        /\ IsYearField(SubSeq(text, lm + ld + 3, Len(text))) }

\* the calendar day y-m-d, if there is one and a nanosecond timestamp holds it
DateOf(y, m, d) ==
    IF d > DaysInMonth(y, m) THEN NaT
    ELSE IF y * 10000 + m * 100 + d < MinDate THEN NaT
    ELSE IF y * 10000 + m * 100 + d > MaxDate THEN NaT
    ELSE Date(y, m, d)

\* DATE_FORMAT = "%m/%d/%Y": the whole text must match, the day must exist
\* in the month and the date must fit a nanosecond timestamp; else NaT
strptime(text) ==
    LET read == {[m |-> TextVal(SubSeq(text, 1, sp[1])),
                  d |-> DayVal(SubSeq(text, sp[1] + 2, sp[1] + sp[2] + 1)),
                  y |-> TextVal(SubSeq(text, sp[1] + sp[2] + 3, Len(text)))] :
                     sp \in Splits(text)}
        dates == {DateOf(f.y, f.m, f.d) : f \in read}
    IN  IF dates = {} THEN NaT ELSE CHOOSE x \in dates : TRUE

\* errors = 'coerce': whatever is not a date in the format becomes NaT
to_datetime(v) == IF v.k = "str" THEN strptime(v.s) ELSE NaT

\* .dt.strftime('%Y-%m')
Pad(t, w) == IF Len(t) >= w THEN t ELSE [i \in 1..(w - Len(t)) |-> "0"] \o t

strftime_Y_m(v) ==
    IF isna(v) THEN NaN
    ELSE Str(Pad(NatText(v.n \div 10000), 4) \o <<"-">>
             \o Pad(NatText((v.n \div 100) % 100), 2))

-----------------------------------------------------------------------------
(* Data frames: a set of column names and a sequence of rows, each row a   *)
(* function from the column names to cells                                 *)

\* config.EXPECTED_COLUMNS
EXPECTED_COLUMNS == {"date", "description", "category", "transaction_type", "amount"}

NoFrame == [columns |-> {}, rows |-> <<>>]

\* a category or transaction-type label, kept as a text of one token
Label(l) == Str(<<l>>)

\* df.empty
empty(frame) == frame.columns = {} \/ frame.rows = <<>>

\* df[name] = cells: the frame with the column set, row by row
SetColumn(frame, name, cells) ==
    [columns |-> frame.columns \cup {name},
     rows    |-> IF frame.rows = <<>> THEN <<>>
                 ELSE [i \in 1..Len(frame.rows) |->
                        [c \in frame.columns \cup {name} |->
                            IF c = name THEN cells[i] ELSE frame.rows[i][c]]]]

\* the column as a sequence of cells
Column(frame, name) ==
    IF frame.rows = <<>> THEN <<>>
    ELSE [i \in 1..Len(frame.rows) |-> frame.rows[i][name]]

\* .isna().sum()
CountNa(cells) == Cardinality({i \in 1..Len(cells) : isna(cells[i])})

\* the exceptions of the program
NoError == [type |-> "None", msg |-> "", cols |-> {}]
Raise(type, msg, cols) == [type |-> type, msg |-> msg, cols |-> cols]

\* the gate without its check for an empty frame
validate_raw_NoEmptyCheck(frame) ==
    LET missing_cols == EXPECTED_COLUMNS \ frame.columns
    IN  IF missing_cols # {}
        THEN Raise("ValueError", "Missing required columns", missing_cols)
        ELSE NoError

\* validate_raw_data: the exception it raises, or NoError
validate_raw_data(frame) ==
    LET missing_cols == EXPECTED_COLUMNS \ frame.columns
    IN  IF missing_cols # {}
        THEN Raise("ValueError", "Missing required columns", missing_cols)
        ELSE IF empty(frame)
        THEN Raise("ValueError", "DataFrame is empty", {})
        ELSE NoError

\* drop_duplicates(subset = ['date', 'description', 'amount']): rows are
\* compared on three columns only
RECURSIVE KeepFirstByKey(_, _)
KeepFirstByKey(kept, rest) ==
    IF rest = <<>> THEN kept
    ELSE IF \E j \in 1..Len(kept) :
               \A c \in {"date", "description", "amount"} : kept[j][c] = Head(rest)[c]
    THEN KeepFirstByKey(kept, Tail(rest))
    ELSE KeepFirstByKey(Append(kept, Head(rest)), Tail(rest))

\* df.drop_duplicates(): a row equal in every column to an earlier row is
\* removed; missing values are equal to each other
RECURSIVE KeepFirst(_, _)
KeepFirst(kept, rest) ==
    IF rest = <<>> THEN kept
    ELSE IF \E j \in 1..Len(kept) : kept[j] = Head(rest)
    THEN KeepFirst(kept, Tail(rest))
    ELSE KeepFirst(Append(kept, Head(rest)), Tail(rest))

drop_duplicates(frame) == [frame EXCEPT !.rows = KeepFirst(<<>>, frame.rows)]

\* df.dropna(subset = [name])
NotNaDate(row) == ~isna(row["date_dt"])

\* the drop left out: every row stays
dropna_Nothing(frame) == frame

dropna_date_dt(frame) == [frame EXCEPT !.rows = SelectSeq(frame.rows, NotNaDate)]

\* df['description'].apply(categorize_transaction) applied only where the
\* source file gives no category
CategorySeries_KeepInput(frame) ==
    IF frame.rows = <<>> THEN <<>>
    ELSE [i \in 1..Len(frame.rows) |->
            IF isna(frame.rows[i]["category"])
            THEN Label(categorize_transaction(frame.rows[i]["description"]))
            ELSE frame.rows[i]["category"]]

\* df['description'].apply(categorize_transaction)
CategorySeries(frame) ==
    IF frame.rows = <<>> THEN <<>>
    ELSE [i \in 1..Len(frame.rows) |->
            Label(categorize_transaction(frame.rows[i]["description"]))]

\* df['amount'].apply(derive_transaction_type)
TypeSeries(frame) ==
    IF frame.rows = <<>> THEN <<>>
    ELSE [i \in 1..Len(frame.rows) |->
            Label(derive_transaction_type(frame.rows[i]["amount"]))]

\* pd.to_datetime(df['date'], format = DATE_FORMAT, errors = 'coerce')
DateSeries(frame) ==
    IF frame.rows = <<>> THEN <<>>
    ELSE [i \in 1..Len(frame.rows) |-> to_datetime(frame.rows[i]["date"])]

\* step 6: the selected columns under their database names, and month_year
CleanColumns == {"transaction_date", "transaction_desc", "category",
                 "transaction_type", "amount", "month_year"}

\* step 6 with the labels of the source file kept: category and
\* transaction_type are taken from the input columns
ShapeRow_InputLabels(row) ==
    [c \in CleanColumns |->
        CASE c = "transaction_date" -> row["date_dt"]
          [] c = "transaction_desc" -> row["description"]
          [] c = "category"         -> row["category"]
          [] c = "transaction_type" -> row["transaction_type"]
          [] c = "amount"           -> row["amount"]
          [] c = "month_year"       -> strftime_Y_m(row["date_dt"])]

ShapeRow(row) ==
    [c \in CleanColumns |->
        CASE c = "transaction_date" -> row["date_dt"]
          [] c = "transaction_desc" -> row["description"]
          [] c = "category"         -> row["category_corrected"]
          [] c = "transaction_type" -> row["derived_transaction_type"]
          [] c = "amount"           -> row["amount"]
          [] c = "month_year"       -> strftime_Y_m(row["date_dt"])]

Shape(frame) ==
    [columns |-> CleanColumns,
     rows    |-> IF frame.rows = <<>> THEN <<>>
                 ELSE [i \in 1..Len(frame.rows) |-> ShapeRow(frame.rows[i])]]

\* pd.api.types.is_datetime64_any_dtype, is_numeric_dtype
is_datetime(cells) == \A i \in 1..Len(cells) : cells[i].k \in {"date", "nat"}

is_numeric(cells) == \A i \in 1..Len(cells) : cells[i].k \in {"num", "nan"}

\* the checks of validate_clean_data, in the order they are evaluated
Checks(frame) == <<
    [name |-> "No nulls in date",
     passed |-> CountNa(Column(frame, "transaction_date")) = 0],
    [name |-> "No nulls in amount",
     passed |-> CountNa(Column(frame, "amount")) = 0],
    [name |-> "Date is datetime",
     passed |-> is_datetime(Column(frame, "transaction_date"))],
    [name |-> "Amount is numeric",
     passed |-> is_numeric(Column(frame, "amount"))],
    [name |-> "All categories assigned",
     passed |-> CountNa(Column(frame, "category")) = 0],
    [name |-> "All transaction types assigned",
     passed |-> CountNa(Column(frame, "transaction_type")) = 0] >>

\* the gate without its check of the amounts
validate_clean_NoAmountCheck(frame) ==
    LET checks == Checks(frame)
        failing == {i \in 1..Len(checks) :
                       ~checks[i].passed /\ checks[i].name # "No nulls in amount"}
    IN  IF failing = {} THEN NoError
        ELSE LET first == CHOOSE i \in failing : \A j \in failing : i <= j
             IN  Raise("ValueError", checks[first].name, {})

\* validate_clean_data: the exception of the first check that fails, or NoError
validate_clean_data(frame) ==
    LET checks == Checks(frame)
        failing == {i \in 1..Len(checks) : ~checks[i].passed}
    IN  IF failing = {} THEN NoError
        ELSE LET first == CHOOSE i \in failing : \A j \in failing : i <= j
             IN  Raise("ValueError", checks[first].name, {})

\* clean_transaction_data as a function of the raw frame: the exception it
\* raises or the clean frame it returns
Result(e, frame) == [error |-> e, frame |-> frame]

clean_transaction_data(frame) ==
    IF validate_raw_data(frame) # NoError
    THEN Result(validate_raw_data(frame), NoFrame)
    ELSE LET deduped     == drop_duplicates(frame)
             categorized == SetColumn(deduped, "category_corrected",
                                      CategorySeries(deduped))
             types       == TypeSeries(categorized)
             transformed == SetColumn(categorized, "derived_transaction_type", types)
             parsed      == SetColumn(transformed, "date_dt", DateSeries(transformed))
             valid       == IF CountNa(Column(parsed, "date_dt")) > 0
                            THEN dropna_date_dt(parsed) ELSE parsed
             clean       == Shape(valid)
         IN  IF \E i \in 1..Len(types) : types[i] = Label(TypeError)
             THEN Result(Raise("TypeError",
                               "'>' not supported between 'str' and 'int'", {}),
                         NoFrame)
             ELSE IF validate_clean_data(clean) # NoError
             THEN Result(validate_clean_data(clean), NoFrame)
             ELSE Result(NoError, clean)

-----------------------------------------------------------------------------
(* The inputs of a single call of a row-level function *)

Vocabulary == {
    <<"P", "a", "y", "c", "h", "e", "c", "k">>,
    <<"d", "e", "p", "o", "s", "i", "t">>,
    <<"E", "m", "p", "l", "o", "y", "e", "r">>,
    <<"D", "D">>,
    <<"-">>,
    <<" ">>,
    <<"\n">>,
    <<"c", "o", "f", "f", "e", "e">>,
    <<"V", "e", "g", "a", "s">>,
    <<"A", "M", "A", "Z", "O", "N">>,
    <<"W", "h", "o", "l", "e">>,
    <<"F", "o", "o", "d", "s">>,
    <<"R", "e", "n", "t">>,
    <<"x">> }

\* the texts of at most n fragments
RECURSIVE Texts(_)
Texts(n) == IF n = 0 THEN {<<>>}
            ELSE LET shorter == Texts(n - 1)
                 IN  shorter \cup {t \o f : t \in shorter, f \in Vocabulary}

Descriptions == {Str(t) : t \in Texts(MaxWords)} \cup {NaN, Num(711), Num(-11)}

Amounts == {Num(x) : x \in {-100000, -450, -1, 0, 1, 450, 100000}}
           \cup {NaN, Str(<<"a", "b", "c">>), Str(<<"$", "4", ".", "5", "0">>)}

MonthFields == {<<"0", "1">>, <<"1">>, <<"2">>, <<"0", "2">>, <<"4">>, <<"9">>,
                <<"1", "2">>, <<"1", "3">>, <<"0", "0">>}

DayFields == {<<"0", "5">>, <<"5">>, <<" ", "5">>, <<"0">>, <<"1", "1">>, <<"1", "2">>,
              <<"2", "1">>, <<"2", "2">>, <<"2", "9">>, <<"3", "0">>, <<"3", "1">>,
              <<"3", "2">>}

YearFields == {<<"2", "0", "2", "4">>, <<"2", "0", "2", "3">>, <<"1", "9", "0", "0">>,
               <<"1", "6", "7", "7">>, <<"2", "2", "6", "2">>, <<"2", "4">>,
               <<"0", "2", "0", "2", "4">>}

DateTexts == {m \o <<sep>> \o d \o <<sep>> \o y :
                m \in MonthFields, d \in DayFields, y \in YearFields, sep \in {"/", "-"}}
             \cup {<<"2", "0", "2", "4", "-", "0", "1", "-", "0", "5">>, <<>>}

Dates == {Str(t) : t \in DateTexts} \cup {NaN, Num(20240105)}

NoRet == [k |-> "none", s |-> <<>>, n |-> 0]

-----------------------------------------------------------------------------
(* The source files: what pd.read_csv can give for a file *)

AllColumns == EXPECTED_COLUMNS \cup {"notes"}

Row(date, description, category, transaction_type, amount, notes) ==
    [c \in AllColumns |->
        CASE c = "date"             -> date
          [] c = "description"      -> description
          [] c = "category"         -> category
          [] c = "transaction_type" -> transaction_type
          [] c = "amount"           -> amount
          [] c = "notes"            -> notes]

SampleRows == {
    Row(Str(<<"0", "1", "/", "0", "5", "/", "2", "0", "2", "4">>),
        Str(<<"S", "T", "A", "R", "B", "U", "C", "K", "S", " ", "#", "1", "2", "3">>),
        Label("Food"), Label("debit"), Num(-450), NaN),
    Row(Str(<<"0", "1", "/", "0", "5", "/", "2", "0", "2", "4">>),
        Str(<<"S", "T", "A", "R", "B", "U", "C", "K", "S", " ", "#", "1", "2", "3">>),
        Label("Misc"), Label("debit"), Num(-450), Label("x")),
    Row(Str(<<"2", "/", "2", "9", "/", "2", "0", "2", "4">>),
        NaN, NaN, NaN, Num(0), NaN),
    Row(Str(<<"1", "2", "/", "3", "1", "/", "2", "0", "2", "3">>),
        Str(<<"A", "m", "a", "z", "o", "n", " ", "c", "o", "f", "f", "e", "e">>),
        Label("Income"), Label("credit"), Num(100000), NaN),
    Row(Str(<<"1", "/", "0", "5", "/", "2", "0", "2", "4">>),
        Str(<<"u", "b", "e", "r">>),
        Label("Misc"), NaN, NaN, NaN),
    Row(Str(<<"0", "2", "/", "3", "0", "/", "2", "0", "2", "3">>),
        Str(<<"r", "e", "n", "t">>),
        Label("Bills"), Label("debit"), Str(<<"a", "b", "c">>), NaN),
    Row(Str(<<"2", "0", "2", "4", "-", "0", "1", "-", "0", "5">>),
        Str(<<"x">>),
        NaN, NaN, NaN, NaN) }

ColumnSets == {EXPECTED_COLUMNS, AllColumns, EXPECTED_COLUMNS \ {"amount"}}

Restrict(row, columns) == [c \in columns |-> row[c]]

\* the text of an amount of x cents
AmountText(x) ==
    LET a == IF x < 0 THEN 0 - x ELSE x
    IN  (IF x < 0 THEN <<"-">> ELSE <<>>)
        \o NatText(a \div 100) \o <<".">> \o Pad(NatText(a % 100), 2)

\* the type inference of pd.read_csv on the amount column: one value that is
\* no number makes every value of the column a text
InferAmount(frame) ==
    IF /\ "amount" \in frame.columns
       /\ \E i \in 1..Len(frame.rows) : frame.rows[i]["amount"].k = "str"
    THEN [frame EXCEPT !.rows =
            [i \in 1..Len(frame.rows) |->
                [frame.rows[i] EXCEPT !["amount"] =
                    IF @.k = "num" THEN Str(AmountText(@.n)) ELSE @]]]
    ELSE frame

RECURSIVE Batches(_)
Batches(n) == IF n = 0 THEN {<<>>}
              ELSE LET shorter == Batches(n - 1)
                   IN  shorter \cup {Append(b, r) : b \in shorter, r \in SampleRows}

RECURSIVE RestrictAll(_, _)
RestrictAll(rows, columns) ==
    IF rows = <<>> THEN <<>>
    ELSE <<Restrict(Head(rows), columns)>> \o RestrictAll(Tail(rows), columns)

Frames == {InferAmount([columns |-> cs, rows |-> RestrictAll(b, cs)]) :
              cs \in ColumnSets, b \in Batches(MaxRows)}

\* the paths the event source reports: a path is a sequence of name parts
CsvA    == <<"a", ".csv">>
CsvB    == <<"b", ".csv">>
Events == {[event_type |-> "created", src_path |-> CsvA, is_directory |-> FALSE],
           [event_type |-> "created", src_path |-> CsvB, is_directory |-> FALSE],
           [event_type |-> "created", src_path |-> <<"notes", ".txt">>,
            is_directory |-> FALSE],
           [event_type |-> "created", src_path |-> <<"old", ".csv">>,
            is_directory |-> TRUE]}

\* the extension not looked at: every path passes
endswith_Anything(path) == path # <<>>

\* str.endswith('.csv')
endswith_csv(path) == path # <<>> /\ path[Len(path)] = ".csv"

NoPath == <<>>
NoReport == [duplicates_removed |-> 0, invalid_dates |-> 0]

\* time.sleep(2) in on_created, in seconds
SettleDelay == 2

-----------------------------------------------------------------------------
(* The initial state: an empty watch folder, an idle handler *)

IdleRow == fn = "none" /\ arg = NaN /\ ret = NoRet

IdleWatcher ==
    /\ watchFolder = {} /\ processedDir = {} /\ failedDir = {} /\ errorLogs = {}
    /\ store = <<>>
    /\ queue = <<>> /\ created = 0 /\ now = 0
    /\ handler = "Idle" /\ filepath = NoPath /\ timestamp = 0
    /\ stage = "None" /\ df = NoFrame /\ pipe_df = NoFrame /\ clean_df = NoFrame /\ returned = NoFrame
    /\ error = NoError /\ report = NoReport /\ rows_inserted = 0
    /\ observer = "Running" /\ arrivals = <<>>

Init == IdleRow /\ IdleWatcher

-----------------------------------------------------------------------------
(* The event source *)

\* a file or a directory appears in the watch folder
Create(e) ==
    /\ created < MaxFiles
    /\ e.src_path \notin watchFolder
    /\ watchFolder' = watchFolder \cup {e.src_path}
    /\ queue' = Append(queue, e)
    /\ created' = created + 1
    /\ UNCHANGED <<rowVars, watchVars, processedDir, failedDir, errorLogs, store, now,
                   handler, fileVars, df, stage, pipeVars>>

-----------------------------------------------------------------------------
(* CSVHandler *)

\* on_created called for the newest event of the queue instead of the oldest
on_created_Newest ==
    /\ observer = "Running"
    /\ handler = "Idle"
    /\ queue # <<>>
    /\ queue[Len(queue)].event_type = "created"
    /\ queue' = SubSeq(queue, 1, Len(queue) - 1)
    /\ IF queue[Len(queue)].is_directory \/ ~endswith_csv(queue[Len(queue)].src_path)
       THEN UNCHANGED <<handler, filepath>>
       ELSE /\ handler' = "Settling"
            /\ filepath' = queue[Len(queue)].src_path
    /\ UNCHANGED <<rowVars, watchVars, fsVars, store, created, now, timestamp, df, stage, pipeVars>>

\* on_created: the next event is taken; a directory and a path that does not
\* end in .csv are ignored
on_created ==
    /\ observer = "Running"
    /\ handler = "Idle"
    /\ queue # <<>>
    /\ Head(queue).event_type = "created"
    /\ queue' = Tail(queue)
    /\ IF Head(queue).is_directory \/ ~endswith_csv(Head(queue).src_path)
       THEN UNCHANGED <<handler, filepath>>
       ELSE /\ handler' = "Settling"
            /\ filepath' = Head(queue).src_path
    /\ UNCHANGED <<rowVars, watchVars, fsVars, store, created, now, timestamp, df, stage, pipeVars>>

\* time.sleep(2), then process_file takes its timestamp
Settle ==
    /\ handler = "Settling"
    /\ now' = now + SettleDelay
    /\ timestamp' = now'
    /\ handler' = "Processing"
    /\ stage' = "Start"
    /\ UNCHANGED <<rowVars, watchVars, fsVars, store, evVars, filepath, df, pipeVars>>

\* an exception leaves clean_transaction_data: its locals are gone and
\* process_file is in its except clause
Fail(e) ==
    /\ stage' = "Failed"
    /\ error' = e
    /\ pipe_df' = NoFrame
    /\ clean_df' = NoFrame

\* EXTRACT: pd.read_csv gives a frame or raises; TRANSFORM: the frame is
\* handed to clean_transaction_data
ReadFile(contents) ==
    /\ handler = "Processing" /\ stage = "Start"
    /\ \/ /\ \E f \in contents : df' = f /\ pipe_df' = f
          /\ stage' = "Loaded"
          /\ UNCHANGED <<clean_df, error>>
       \/ /\ Fail(Raise("EmptyDataError", "No columns to parse from file", {}))
          /\ UNCHANGED df
    /\ UNCHANGED <<rowVars, watchVars, fsVars, store, evVars, now, handler, fileVars,
                   returned, report, rows_inserted>>

\* a source file holds any batch of the sample rows
read_csv == ReadFile(Frames)

\* step 1 of clean_transaction_data
RawValidate ==
    /\ handler = "Processing" /\ stage = "Loaded"
    /\ IF validate_raw_data(pipe_df) = NoError
       THEN stage' = "RawValidated" /\ UNCHANGED <<pipe_df, clean_df, error>>
       ELSE Fail(validate_raw_data(pipe_df))
    /\ UNCHANGED <<rowVars, watchVars, fsVars, store, evVars, now, handler, fileVars, df,
                   returned, report, rows_inserted>>

\* step 2
Deduplicate ==
    /\ handler = "Processing" /\ stage = "RawValidated"
    /\ pipe_df' = drop_duplicates(pipe_df)
    /\ report' = [report EXCEPT !.duplicates_removed =
                                    Len(pipe_df.rows) - Len(drop_duplicates(pipe_df).rows)]
    /\ stage' = "Deduplicated"
    /\ UNCHANGED <<rowVars, watchVars, fsVars, store, evVars, now, handler, fileVars, df,
                   clean_df, returned, error, rows_inserted>>

\* step 3
Categorize ==
    /\ handler = "Processing" /\ stage = "Deduplicated"
    /\ pipe_df' = SetColumn(pipe_df, "category_corrected", CategorySeries(pipe_df))
    /\ stage' = "Categorized"
    /\ UNCHANGED <<rowVars, watchVars, fsVars, store, evVars, now, handler, fileVars, df,
                   clean_df, returned, error, report, rows_inserted>>

\* step 4: the exception of one row is the exception of the step
DeriveTypes ==
    /\ handler = "Processing" /\ stage = "Categorized"
    /\ IF \E i \in 1..Len(pipe_df.rows) : TypeSeries(pipe_df)[i] = Label(TypeError)
       THEN Fail(Raise("TypeError", "'>' not supported between 'str' and 'int'", {}))
       ELSE /\ pipe_df' = SetColumn(pipe_df, "derived_transaction_type",
                                     TypeSeries(pipe_df))
            /\ stage' = "Transformed"
            /\ UNCHANGED <<clean_df, error>>
    /\ UNCHANGED <<rowVars, watchVars, fsVars, store, evVars, now, handler, fileVars, df,
                   returned, report, rows_inserted>>

\* step 5: the rows whose date did not parse are dropped
ParseDates ==
    /\ handler = "Processing" /\ stage = "Transformed"
    /\ \E parsed \in {SetColumn(pipe_df, "date_dt", DateSeries(pipe_df))} :
          \E invalid_dates \in {CountNa(Column(parsed, "date_dt"))} :
             /\ pipe_df' = IF invalid_dates > 0 THEN dropna_date_dt(parsed) ELSE parsed
             /\ report' = [report EXCEPT !.invalid_dates = invalid_dates]
    /\ stage' = "DatesNormalized"
    /\ UNCHANGED <<rowVars, watchVars, fsVars, store, evVars, now, handler, fileVars, df,
                   clean_df, returned, error, rows_inserted>>

\* step 6
ShapeFinal ==
    /\ handler = "Processing" /\ stage = "DatesNormalized"
    /\ clean_df' = Shape(pipe_df)
    /\ stage' = "Shaped"
    /\ UNCHANGED <<rowVars, watchVars, fsVars, store, evVars, now, handler, fileVars, df,
                   pipe_df, returned, error, report, rows_inserted>>

\* step 7 with the failure swallowed: the rows that pass are returned
CleanValidate_Partial ==
    /\ handler = "Processing" /\ stage = "Shaped"
    /\ IF validate_clean_data(clean_df) = NoError
       THEN stage' = "CleanValidated" /\ UNCHANGED <<pipe_df, clean_df, returned, error>>
       ELSE /\ returned' = [clean_df EXCEPT !.rows =
                               SelectSeq(clean_df.rows,
                                         LAMBDA r : ~isna(r["amount"])
                                                    /\ ~isna(r["transaction_date"]))]
            /\ stage' = "Done"
            /\ pipe_df' = NoFrame
            /\ clean_df' = NoFrame
            /\ UNCHANGED error
    /\ UNCHANGED <<rowVars, watchVars, fsVars, store, evVars, now, handler, fileVars, df,
                   report, rows_inserted>>

\* step 7
CleanValidate ==
    /\ handler = "Processing" /\ stage = "Shaped"
    /\ IF validate_clean_data(clean_df) = NoError
       THEN stage' = "CleanValidated" /\ UNCHANGED <<pipe_df, clean_df, error>>
       ELSE Fail(validate_clean_data(clean_df))
    /\ UNCHANGED <<rowVars, watchVars, fsVars, store, evVars, now, handler, fileVars, df,
                   returned, report, rows_inserted>>

\* return clean_df: process_file holds the clean batch
Return ==
    /\ handler = "Processing" /\ stage = "CleanValidated"
    /\ returned' = clean_df
    /\ pipe_df' = NoFrame
    /\ clean_df' = NoFrame
    /\ stage' = "Done"
    /\ UNCHANGED <<rowVars, watchVars, fsVars, store, evVars, now, handler, fileVars, df,
                   error, report, rows_inserted>>

\* LOAD: insert_transactions commits every row of the batch, or raises and
\* commits none; an empty batch returns 0 before the store is contacted.
\* The store keeps, for every commit, the file and the number of its rows.
insert_transactions ==
    /\ handler = "Processing" /\ stage = "Done"
    /\ IF empty(returned)
       THEN /\ rows_inserted' = 0
            /\ stage' = "Inserted"
            /\ UNCHANGED <<store, error, pipe_df, clean_df>>
       ELSE \/ /\ store' = Append(store, [file |-> filepath, timestamp |-> timestamp,
                                          rows |-> Len(returned.rows)])
               /\ rows_inserted' = Len(returned.rows)
               /\ stage' = "Inserted"
               /\ UNCHANGED <<error, pipe_df, clean_df>>
            \/ /\ Fail(Raise("ConnectionError", "Cannot connect to PostgreSQL", {}))
               /\ UNCHANGED <<store, rows_inserted>>
    /\ UNCHANGED <<rowVars, watchVars, fsVars, evVars, now, handler, fileVars, df, returned, report>>

\* the name of a moved file: the timestamp before the original name
Moved(ts, path) == [timestamp |-> ts, name |-> path]

\* str.replace('.csv', '_ERROR.txt')
replace_csv(path) ==
    [i \in DOMAIN path |-> IF path[i] = ".csv" THEN "_ERROR.txt" ELSE path[i]]

move_to_processed ==
    /\ handler = "Processing" /\ stage = "Inserted"
    /\ processedDir' = processedDir \cup {Moved(timestamp, filepath)}
    /\ watchFolder' = watchFolder \ {filepath}
    /\ handler' = "Succeeded"
    /\ UNCHANGED <<rowVars, watchVars, failedDir, errorLogs, store, evVars, now, fileVars, df,
                   stage, pipeVars>>

\* str(e): the text of an exception.  The message get_connection gives its
\* ConnectionError spans three lines; the other messages are one line
str_error(e) ==
    IF e.type = "ConnectionError"
    THEN <<e.msg, "\n", "Error: connection refused", "\n",
           "Make sure Docker container is running: docker-compose up -d">>
    ELSE <<e.msg>>

\* a text as the lines a reader of the file gets
RECURSIVE splitlines(_)
splitlines(text) ==
    IF text = <<>> THEN <<>>
    ELSE IF \E k \in 1..Len(text) : text[k] = "\n"
    THEN LET k == CHOOSE i \in 1..Len(text) :
                      text[i] = "\n" /\ \A j \in 1..(i - 1) : text[j] # "\n"
         IN  <<SubSeq(text, 1, k - 1)>> \o splitlines(SubSeq(text, k + 1, Len(text)))
    ELSE <<text>>

\* the lines of an error log: the timestamp line, then what the writes of
\* the file name and of the error give
readlines(log) ==
    <<<<log.lines[1].prefix, log.lines[1].text>>>>
    \o splitlines(<<log.lines[2].prefix>> \o log.lines[2].text \o <<"\n">>
                  \o <<log.lines[3].prefix>> \o str_error(log.lines[3].text) \o <<"\n">>)

\* the except clause of process_file
move_to_failed ==
    /\ handler = "Processing" /\ stage = "Failed"
    /\ failedDir' = failedDir \cup {Moved(timestamp, filepath)}
    /\ watchFolder' = watchFolder \ {filepath}
    /\ errorLogs' = errorLogs \cup
          {[path  |-> Moved(timestamp, replace_csv(filepath)),
            lines |-> <<[prefix |-> "Error at: ", text |-> timestamp],
                        [prefix |-> "File: ", text |-> filepath],
                        [prefix |-> "Error: ", text |-> error]>>]}
    /\ handler' = "Failed"
    /\ UNCHANGED <<rowVars, watchVars, processedDir, store, evVars, now, fileVars, df,
                   stage, pipeVars>>

\* process_file and on_created return
Finish ==
    /\ handler \in {"Succeeded", "Failed"}
    /\ handler' = "Idle"
    /\ filepath' = NoPath
    /\ timestamp' = 0
    /\ stage' = "None"
    /\ df' = NoFrame /\ pipe_df' = NoFrame /\ clean_df' = NoFrame
    /\ returned' = NoFrame
    /\ error' = NoError /\ report' = NoReport /\ rows_inserted' = 0
    /\ UNCHANGED <<rowVars, watchVars, fsVars, store, evVars, now>>

Next ==
    \/ \E e \in Events : Create(e)
    \/ on_created
    \/ Settle
    \/ read_csv
    \/ RawValidate
    \/ Deduplicate
    \/ Categorize
    \/ DeriveTypes
    \/ ParseDates
    \/ ShapeFinal
    \/ CleanValidate
    \/ Return
    \/ insert_transactions
    \/ move_to_processed
    \/ move_to_failed
    \/ Finish

Spec == Init /\ [][Next]_vars

-----------------------------------------------------------------------------
(* The watcher as start_watching runs it: the observer thread takes the    *)
(* queued events one by one and calls the handler, the main thread sleeps  *)
(* until Ctrl+C, stops the observer and joins it                           *)

\* the most events the observer queues
MaxEvents == 2

\* a file saved with the extension typed twice
CsvTwice == <<"data", ".csv", ".csv">>

WatchEvents ==
    {[event_type |-> "created", src_path |-> CsvA, is_directory |-> FALSE],
     [event_type |-> "created", src_path |-> CsvTwice, is_directory |-> FALSE],
     [event_type |-> "created", src_path |-> <<"notes", ".txt">>, is_directory |-> FALSE],
     [event_type |-> "created", src_path |-> <<"old", ".csv">>, is_directory |-> TRUE],
     [event_type |-> "modified", src_path |-> CsvA, is_directory |-> FALSE]}

\* the files of the watcher runs: every batch of at most one sample row
\* with the required columns, and a file without its amount column
SampleFrames ==
    {InferAmount([columns |-> EXPECTED_COLUMNS,
                  rows |-> RestrictAll(b, EXPECTED_COLUMNS)]) : b \in Batches(1)}
    \cup {[columns |-> EXPECTED_COLUMNS \ {"amount"},
           rows |-> RestrictAll(<<r>>, EXPECTED_COLUMNS \ {"amount"})] :
              r \in {x \in SampleRows : x["amount"] = Num(0)}}

\* the observer queues an event of the watch folder: a file or a directory
\* is created, or a file that is there is written to
Arrive(e) ==
    /\ observer = "Running"
    /\ Len(arrivals) < MaxEvents
    /\ IF e.event_type = "created"
       THEN /\ e.src_path \notin watchFolder
            /\ watchFolder' = watchFolder \cup {e.src_path}
       ELSE /\ e.src_path \in watchFolder
            /\ UNCHANGED watchFolder
    /\ queue' = Append(queue, e)
    /\ arrivals' = Append(arrivals, e)
    /\ UNCHANGED <<rowVars, observer, processedDir, failedDir, errorLogs, store,
                   created, now, handler, fileVars, df, stage, pipeVars>>

\* an event that is no create event is dispatched to a method CSVHandler
\* does not define: nothing happens
on_modified ==
    /\ observer = "Running"
    /\ handler = "Idle"
    /\ queue # <<>>
    /\ Head(queue).event_type # "created"
    /\ queue' = Tail(queue)
    /\ UNCHANGED <<rowVars, watchVars, fsVars, store, created, now, handler,
                   fileVars, df, stage, pipeVars>>

read_sample == ReadFile(SampleFrames)

\* Ctrl+C in the main thread: observer.stop()
KeyboardInterrupt ==
    /\ observer = "Running"
    /\ observer' = "Stopping"
    /\ UNCHANGED <<rowVars, arrivals, fsVars, store, evVars, now, handler,
                   fileVars, df, stage, pipeVars>>

\* the main thread ends without waiting for the observer thread
join_NoWait ==
    /\ observer = "Stopping"
    /\ observer' = "Stopped"
    /\ UNCHANGED <<rowVars, arrivals, fsVars, store, evVars, now, handler,
                   fileVars, df, stage, pipeVars>>

\* observer.join(): the observer thread has left its loop, after the
\* handler call it was in
join ==
    /\ observer = "Stopping"
    /\ handler \in {"Idle", "Crashed"}
    /\ observer' = "Stopped"
    /\ UNCHANGED <<rowVars, arrivals, fsVars, store, evVars, now, handler,
                   fileVars, df, stage, pipeVars>>

\* the steps of the observer thread
HandlerStep ==
    \/ on_created
    \/ on_modified
    \/ Settle
    \/ read_sample
    \/ RawValidate
    \/ Deduplicate
    \/ Categorize
    \/ DeriveTypes
    \/ ParseDates
    \/ ShapeFinal
    \/ CleanValidate
    \/ Return
    \/ insert_transactions
    \/ move_to_processed
    \/ move_to_failed
    \/ Finish

NextWatch ==
    \/ \E e \in WatchEvents : Arrive(e)
    \/ HandlerStep
    \/ KeyboardInterrupt
    \/ join

\* every file operation succeeds; a running thread takes its next step
SpecWatch == Init /\ [][NextWatch]_vars /\ WF_vars(HandlerStep) /\ WF_vars(join)

\* shutil.move raises in move_to_processed (the file is locked or gone, the
\* folder cannot be written): the except clause of process_file takes over
move_to_processed_raises ==
    /\ handler = "Processing" /\ stage = "Inserted"
    /\ Fail(Raise("OSError", "Cannot move file", {}))
    /\ UNCHANGED <<rowVars, watchVars, fsVars, store, evVars, now, handler, fileVars,
                   df, returned, report, rows_inserted>>

\* shutil.move raises in move_to_failed: the exception leaves the except
\* clause, process_file, on_created and the loop of the observer thread
move_to_failed_raises ==
    /\ handler = "Processing" /\ stage = "Failed"
    /\ handler' = "Crashed"
    /\ UNCHANGED <<rowVars, watchVars, fsVars, store, evVars, now, fileVars, df,
                   stage, pipeVars>>

\* the file is moved, then open or write of the error log raises
error_log_raises ==
    /\ handler = "Processing" /\ stage = "Failed"
    /\ failedDir' = failedDir \cup {Moved(timestamp, filepath)}
    /\ watchFolder' = watchFolder \ {filepath}
    /\ handler' = "Crashed"
    /\ UNCHANGED <<rowVars, watchVars, processedDir, errorLogs, store, evVars, now,
                   fileVars, df, stage, pipeVars>>

NextIO ==
    \/ NextWatch
    \/ move_to_processed_raises
    \/ move_to_failed_raises
    \/ error_log_raises

\* a file operation of the routing may fail
SpecIO == Init /\ [][NextIO]_vars /\ WF_vars(HandlerStep) /\ WF_vars(join)

-----------------------------------------------------------------------------
(* A single call of categorize_transaction, derive_transaction_type or     *)
(* pd.to_datetime on one value                                             *)

InitRow ==
    /\ IdleWatcher
    /\ ret = NoRet
    /\ \/ fn = "categorize_transaction" /\ arg \in Descriptions
       \/ fn = "derive_transaction_type" /\ arg \in Amounts
       \/ fn = "to_datetime" /\ arg \in Dates

CallCategorize ==
    /\ fn = "categorize_transaction" /\ ret = NoRet
    /\ ret' = Label(categorize_transaction(arg))
    /\ UNCHANGED <<fn, arg, watchVars, fsVars, store, evVars, now, handler, fileVars, df, stage, pipeVars>>

CallDerive ==
    /\ fn = "derive_transaction_type" /\ ret = NoRet
    /\ ret' = Label(derive_transaction_type(arg))
    /\ UNCHANGED <<fn, arg, watchVars, fsVars, store, evVars, now, handler, fileVars, df, stage, pipeVars>>

CallToDatetime ==
    /\ fn = "to_datetime" /\ ret = NoRet
    /\ ret' = to_datetime(arg)
    /\ UNCHANGED <<fn, arg, watchVars, fsVars, store, evVars, now, handler, fileVars, df, stage, pipeVars>>

NextRow == CallCategorize \/ CallDerive \/ CallToDatetime

SpecRow == InitRow /\ [][NextRow]_vars

-----------------------------------------------------------------------------
(* Properties of the row-level functions, under SpecRow *)

\* the rules whose pattern is found in the text
Matching(text) ==
    {k \in 1..Len(CATEGORY_PATTERNS) : search(CATEGORY_PATTERNS[k].pattern, text)}

Earliest(S) == CHOOSE k \in S : \A j \in S : k <= j

RuleLabels == {CATEGORY_PATTERNS[k].label : k \in 1..Len(CATEGORY_PATTERNS)}

DeclarationOrder == <<"Income", "Food & Dining", "Entertainment", "Transportation",
                      "Groceries", "Bills", "Shopping">>

Categorised == fn = "categorize_transaction" /\ ret # NoRet

\* C1: a description matched by the patterns of two or more rules gets the
\* label of the rule declared earliest in the order Income, Food & Dining,
\* Entertainment, Transportation, Groceries, Bills, Shopping; no later
\* matching rule overrides it.
C1_RulePrecedence ==
    (Categorised /\ ~isna(arg)) =>
        LET matching == Matching(str(arg))
            first    == Earliest(matching)
        IN  Cardinality(matching) >= 2 =>
                /\ ret = Label(DeclarationOrder[first])
                /\ \A k \in matching : k # first => ret # Label(DeclarationOrder[k])

\* a categorised description found by the patterns of Income, of Food & Dining
\* and of Shopping
C1_Witness ==
    /\ Categorised
    /\ ~isna(arg)
    /\ ret = Label("Income")
    /\ {1, 2, 7} \subseteq Matching(str(arg))

\* C2: categorize returns, for every input, one label that is a rule label
\* or Other; an absent or empty description and a text no rule matches give
\* Other; a call always returns.
C2_CategorizeTotal ==
    /\ (fn = "categorize_transaction" /\ ret = NoRet) => ENABLED CallCategorize
    /\ Categorised =>
        LET matching == IF isna(arg) THEN {} ELSE Matching(str(arg))
        IN  /\ ret \in {Label(l) : l \in RuleLabels \cup {Other}}
            /\ (isna(arg) \/ str(arg) = <<>>) => ret = Label(Other)
            /\ (~isna(arg) /\ matching = {}) => ret = Label(Other)
            /\ (~isna(arg) /\ matching # {}) => ret \in {Label(l) : l \in RuleLabels}

\* a text of three fragments that no rule matches, categorised as Other
C2_Witness ==
    /\ Categorised
    /\ arg.k = "str"
    /\ Len(arg.s) > 10
    /\ Matching(arg.s) = {}
    /\ ret = Label(Other)

Derived == fn = "derive_transaction_type" /\ ret # NoRet

TransactionTypes == {"Credit", "Debit", "Neutral", "Unknown"}

-----------------------------------------------------------------------------
(* Properties of the pipeline and of the routing of a file, under Spec *)

RequiredColumns == {"date", "description", "category", "transaction_type", "amount"}

CheckNames == {"No nulls in date", "No nulls in amount", "Date is datetime",
               "Amount is numeric", "All categories assigned",
               "All transaction types assigned"}

\* the pipeline has raised at the clean gate
CleanRejected == stage = "Failed" /\ error.type = "ValueError" /\ error.msg \in CheckNames

\* the pipeline has raised at the raw gate
RawRejected ==
    /\ stage = "Failed"
    /\ error.type = "ValueError"
    /\ error.msg \in {"Missing required columns", "DataFrame is empty"}

\* C4: the derivation of the transaction type never fails: for every amount
\* of a raw row, a text that is no number included, it gives one of the four
\* labels, Unknown for an absent or unparseable amount, and it neither raises
\* nor aborts the batch.
C4_DerivationNeverFails ==
    /\ stage = "Failed" => error.type # TypeError
    /\ stage = "Transformed" =>
          \A i \in 1..Len(pipe_df.rows) :
              /\ pipe_df.rows[i]["derived_transaction_type"]
                   \in {Label(l) : l \in TransactionTypes}
              /\ pipe_df.rows[i]["amount"].k \in {"nan", "str"} =>
                   pipe_df.rows[i]["derived_transaction_type"] = Label("Unknown")

GatedColumns == {"transaction_date", "amount", "category", "transaction_type"}

NoNulls(frame) ==
    \A i \in 1..Len(frame.rows) : \A c \in GatedColumns : ~isna(frame.rows[i][c])

\* C5: a batch that passed validate_clean_data, and so every batch the
\* pipeline returns, has no record with a null transaction_date, amount,
\* category or transaction_type; a shaped batch with such a null is rejected
\* whole: the pipeline fails, nothing is returned and nothing is committed.
C5_CleanGateSound ==
    /\ [](/\ stage = "CleanValidated" => NoNulls(clean_df)
          /\ returned # NoFrame => NoNulls(returned))
    /\ [][(stage = "Shaped" /\ stage' # stage /\ ~NoNulls(clean_df)) =>
             (stage' = "Failed" /\ returned' = NoFrame /\ store' = store)]_vars

\* a batch of two records has passed the gate
C5_Witness == stage = "CleanValidated" /\ Len(clean_df.rows) = 2

\* C6: the clean gate never rejects a batch for sparse or malformed values
\* of single rows: no batch that passed the raw gate fails with a quality
\* error at the clean gate.
C6_CleanGateNeverRejects == ~CleanRejected

StageOrder == <<"Loaded", "RawValidated", "Deduplicated", "Categorized", "Transformed",
                "DatesNormalized", "Shaped", "CleanValidated", "Done">>

StageIndex(st) == CHOOSE k \in 1..Len(StageOrder) : StageOrder[k] = st

InPipeline == \E k \in 1..(Len(StageOrder) - 1) : StageOrder[k] = stage

\* an exception of read_csv or of clean_transaction_data is being handled
PipelineFailed == stage = "Failed" /\ error.type # "ConnectionError"

\* C8: the stages run in the order raw-validate, dedupe, transform,
\* parse-dates, shape, clean-validate; a stage either hands over to the next
\* one or fails; a failed run returns no clean row to the caller, and what
\* a run returns is the whole clean batch.
C8_NoPartialOutput ==
    /\ [][(InPipeline /\ stage' # stage) =>
             \/ stage' = StageOrder[StageIndex(stage) + 1]
             \/ PipelineFailed']_vars
    /\ []((InPipeline \/ stage = "Start" \/ PipelineFailed) => returned = NoFrame)
    /\ [][(returned' # returned /\ returned' # NoFrame) =>
             /\ stage = "CleanValidated" /\ stage' = "Done"
             /\ returned' = clean_df
             /\ Len(returned'.rows) = Len(pipe_df.rows)]_vars

\* the clean gate has failed a batch of two rows after every earlier stage
C8_Witness == CleanRejected /\ Len(df.rows) = 2 /\ returned = NoFrame

\* the dates of the source files that are dates in the format %m/%d/%Y, as
\* the calendar days they name
ExpectedDate(text) ==
    CASE text = <<"0", "1", "/", "0", "5", "/", "2", "0", "2", "4">> -> Date(2024, 1, 5)
      [] text = <<"1", "/", "0", "5", "/", "2", "0", "2", "4">>      -> Date(2024, 1, 5)
      [] text = <<"2", "/", "2", "9", "/", "2", "0", "2", "4">>      -> Date(2024, 2, 29)
      [] text = <<"1", "2", "/", "3", "1", "/", "2", "0", "2", "3">> -> Date(2023, 12, 31)
      [] OTHER -> NaT

Parses(cell) == cell.k = "str" /\ ExpectedDate(cell.s) # NaT

FirstOccurrence(rows, i) == \A j \in 1..(i - 1) : rows[j] # rows[i]

\* the rows of the source file that are no copy of an earlier row
Firsts == {i \in 1..Len(df.rows) : FirstOccurrence(df.rows, i)}

\* those of them whose date parses
Kept == {i \in Firsts : Parses(df.rows[i]["date"])}

Rank(S, i) == Cardinality({j \in S : j <= i})

\* the clean batch holds the kept rows, in their order
HoldsKept(frame) ==
    /\ Len(frame.rows) = Cardinality(Kept)
    /\ \A i \in Kept :
          /\ frame.rows[Rank(Kept, i)]["transaction_date"] = ExpectedDate(df.rows[i]["date"].s)
          /\ frame.rows[Rank(Kept, i)]["transaction_desc"] = df.rows[i]["description"]
          /\ frame.rows[Rank(Kept, i)]["amount"] = df.rows[i]["amount"]

\* every column is there, there is a row, and every amount that counts is a
\* number
OtherwiseValid ==
    /\ RequiredColumns \subseteq df.columns
    /\ df.rows # <<>>
    /\ \A i \in 1..Len(df.rows) : df.rows[i]["amount"].k # "str"
    /\ \A i \in Kept : df.rows[i]["amount"].k = "num"

-----------------------------------------------------------------------------
(* The records of the clean batch, under Spec *)

\* the year and month of the dates of the source files, as YYYY-MM
ExpectedPeriod(text) ==
    CASE ExpectedDate(text) = Date(2024, 1, 5)   -> Str(<<"2", "0", "2", "4", "-", "0", "1">>)
      [] ExpectedDate(text) = Date(2024, 2, 29)  -> Str(<<"2", "0", "2", "4", "-", "0", "2">>)
      [] ExpectedDate(text) = Date(2023, 12, 31) -> Str(<<"2", "0", "2", "3", "-", "1", "2">>)
      [] OTHER -> NaN

Starbucks == Str(<<"S", "T", "A", "R", "B", "U", "C", "K", "S", " ", "#", "1", "2", "3">>)

\* the record of every kept row is derived from that row alone
DerivedFromRow(frame) ==
    \A i \in Kept :
        LET row == df.rows[i]
            rec == frame.rows[Rank(Kept, i)]
        IN  /\ rec["category"] = Label(categorize_transaction(row["description"]))
            /\ rec["transaction_type"] = Label(derive_transaction_type(row["amount"]))
            /\ rec["amount"] = row["amount"]
            /\ rec["transaction_desc"] = row["description"]
            /\ rec["transaction_date"] = ExpectedDate(row["date"].s)
            /\ rec["month_year"] = ExpectedPeriod(row["date"].s)
            /\ (row["description"] = Starbucks /\ row["amount"] = Num(-450)) =>
                  /\ rec["category"] = Label("Food & Dining")
                  /\ rec["transaction_type"] = Label("Debit")
                  /\ rec["month_year"] = Str(<<"2", "0", "2", "4", "-", "0", "1">>)
            /\ (isna(row["description"]) /\ row["amount"] = Num(0)) =>
                  /\ rec["category"] = Label("Other")
                  /\ rec["transaction_type"] = Label("Neutral")

\* C11: every record of a clean batch that passed the gate or was returned
\* carries the category of its row's description, the transaction type of
\* its row's amount, the amount and the description of the row unchanged, the
\* parsed date and its year-month as the period key; the STARBUCKS row of
\* 01/05/2024 with amount -4.50 gives Food & Dining, Debit, 2024-01, and an
\* amount of 0 with no description gives Neutral, Other.
C11_PerRowDerivation ==
    /\ (stage = "CleanValidated" /\ Len(clean_df.rows) = Cardinality(Kept)) =>
          DerivedFromRow(clean_df)
    /\ (returned # NoFrame /\ Len(returned.rows) = Cardinality(Kept)) =>
          DerivedFromRow(returned)
    /\ returned # NoFrame => Len(returned.rows) = Cardinality(Kept)

\* the STARBUCKS row and the row of amount 0 have been returned as two records
C11_Witness ==
    /\ stage = "Done"
    /\ Len(returned.rows) = 2
    /\ df.rows[1]["description"] = Starbucks
    /\ df.rows[1]["category"] = Label("Food")
    /\ df.rows[2]["amount"] = Num(0)
    /\ isna(df.rows[2]["description"])

-----------------------------------------------------------------------------
(* Properties of the watcher, under SpecWatch and SpecIO *)

\* a create event of a file, not a directory, whose name ends in .csv
IsCsvCreate(e) ==
    /\ e.event_type = "created"
    /\ ~e.is_directory
    /\ e.src_path[Len(e.src_path)] = ".csv"

\* the events the observer thread has taken from its queue
Dispatched == Len(arrivals) - Len(queue)

\* those of them that are create events of CSV files
HandledCsv == {k \in 1..Dispatched : IsCsvCreate(arrivals[k])}

Busy == handler \in {"Settling", "Processing"}

Terminal == handler \in {"Succeeded", "Failed"}

\* a file of that path waits in the queue
Queued(path) ==
    \E j \in 1..Len(queue) : IsCsvCreate(queue[j]) /\ queue[j].src_path = path

\* C12: every CSV file whose create event is handled reaches exactly one
\* destination: once the handler is Idle again, each handled file is in the
\* processed or in the failed directory, never in both, and no longer in
\* the watch folder; a file whose pipeline and insert succeeded goes to
\* processed, every other file to failed; and a file that is settling or
\* being processed eventually reaches Succeeded or Failed.
C12_OneTerminalDestination ==
    /\ [](handler = "Idle" =>
             /\ processedDir \cap failedDir = {}
             /\ Cardinality(processedDir) + Cardinality(failedDir)
                   = Cardinality(HandledCsv)
             /\ \A k \in HandledCsv :
                   arrivals[k].src_path \in watchFolder => Queued(arrivals[k].src_path))
    /\ [][(handler = "Processing" /\ stage = "Inserted"
               /\ (stage' # stage \/ handler' # handler)) =>
             /\ handler' = "Succeeded"
             /\ Moved(timestamp, filepath) \in processedDir'
             /\ Moved(timestamp, filepath) \notin failedDir'
             /\ filepath \notin watchFolder']_vars
    /\ [][(handler = "Processing" /\ stage = "Failed" /\ handler' # handler) =>
             /\ handler' = "Failed"
             /\ Moved(timestamp, filepath) \in failedDir'
             /\ Moved(timestamp, filepath) \notin processedDir'
             /\ filepath \notin watchFolder']_vars
    /\ [](handler = "Succeeded" => stage = "Inserted")
    /\ (Busy ~> Terminal)

\* the error log of the file being handled records the error being handled
Logged ==
    \E log \in errorLogs :
        /\ log.path.timestamp = timestamp
        /\ log.lines[2].text = filepath
        /\ log.lines[3].text = error

\* C13: every error raised while a file is processed (by the read, a
\* pipeline stage, the insert, a file move or the write of the error log) is
\* caught in process_file and ends in the failure route: the file in the
\* failed directory with its error log, an insert failure like any other;
\* no error leaves the handler, which returns to Idle and takes the next
\* queued event.
C13_ErrorsCaught ==
    /\ [](handler # "Crashed")
    /\ [][(handler = "Processing" /\ stage = "Failed" /\ handler' # handler) =>
             /\ handler' = "Failed"
             /\ Moved(timestamp, filepath) \in failedDir'
             /\ Logged']_vars
    /\ []((handler = "Failed" /\ error.type = "ConnectionError") =>
             /\ Moved(timestamp, filepath) \in failedDir
             /\ Logged)
    /\ [][handler = "Failed" => handler' \in {"Failed", "Idle"}]_vars
    /\ []((observer = "Running" /\ handler = "Idle" /\ queue # <<>>) =>
             ENABLED (on_created \/ on_modified))

\* the error log written beside a file of the failed directory
HasArtifact(moved) ==
    \E log \in errorLogs :
        /\ log.path.timestamp = moved.timestamp
        /\ log.lines[1].text = moved.timestamp
        /\ log.lines[2].text = moved.name
        /\ log.lines[3].text # NoError

\* the handling of a file has ended after an error
FailureEnded == stage = "Failed" /\ handler # "Processing"

\* C14: whenever the handler is Idle, every file of the failed directory
\* is there under its original name and has beside it an error log with the
\* timestamp, the original file name and the failure reason; and no
\* handling of a file ends after an error without the file's error log
\* having been written.
C14_FailedFilesHaveArtifact ==
    /\ handler = "Idle" =>
          \A moved \in failedDir :
              /\ HasArtifact(moved)
              /\ \E k \in HandledCsv : arrivals[k].src_path = moved.name
    /\ FailureEnded => (Logged /\ Moved(timestamp, filepath) \in failedDir)

\* the files that have reached a destination
Routed == processedDir \cup failedDir

\* the place of a routed file in the order of the moves: every move carries
\* the time of its process_file call
RankByTime(moved) == Cardinality({x \in Routed : x.timestamp <= moved.timestamp})

\* the n-th create event of a CSV file that was taken from the queue
NthHandled(n) == CHOOSE k \in HandledCsv : Rank(HandledCsv, k) = n

\* C15: files are handled one at a time in the order their events arrived:
\* the queue is the not yet dispatched rest of the arrivals, an event is
\* taken only when the handler is Idle, and it is the oldest one; while a
\* file is settling or processed it is the one file of the last dispatched
\* event and every file dispatched before it has reached its destination;
\* the handler is Idle again only after Succeeded or Failed; the n-th file
\* to reach a destination is the n-th CSV file that arrived.
C15_OneAtATimeInOrder ==
    /\ [](/\ Dispatched >= 0
          /\ queue = SubSeq(arrivals, Dispatched + 1, Len(arrivals)))
    /\ [][(queue' # queue /\ arrivals' = arrivals) =>
             /\ handler = "Idle"
             /\ queue' = Tail(queue)
             /\ IsCsvCreate(Head(queue)) =>
                   (handler' = "Settling" /\ filepath' = Head(queue).src_path)
             /\ ~IsCsvCreate(Head(queue)) => handler' = "Idle"]_vars
    /\ [](Busy =>
             /\ Dispatched \in HandledCsv
             /\ filepath = arrivals[Dispatched].src_path
             /\ Cardinality(Routed) = Cardinality(HandledCsv) - 1)
    /\ [](\A moved \in Routed :
             /\ RankByTime(moved) <= Cardinality(HandledCsv)
             /\ arrivals[NthHandled(RankByTime(moved))].src_path = moved.name
             /\ \A other \in Routed :
                   other.timestamp = moved.timestamp => other = moved)
    /\ [][(handler # "Idle" /\ handler' = "Idle") => Terminal]_vars
    /\ [][(handler = "Settling" /\ handler' # handler) => handler' = "Processing"]_vars

\* two CSV files of different names, queued one after the other, have both
\* reached a destination
C15_Witness ==
    /\ Cardinality(Routed) = 2
    /\ Len(arrivals) = 2
    /\ arrivals[1].src_path # arrivals[2].src_path
    /\ handler = "Idle"

\* the state of the handler and of the file it works on
handlerVars == <<handler, filepath, timestamp, stage, df, pipe_df, clean_df,
                 returned, error, report, rows_inserted>>

-----------------------------------------------------------------------------
(* The error log of a failed file *)

\* the name of a file with its extension replaced
WithExtension(name, ext) == [name EXCEPT ![Len(name)] = ext]

\* C17: every error log lies in the failed directory under the name of a
\* moved file with the .csv extension replaced by _ERROR.txt, carries the
\* timestamp of that file's prefix, and has exactly three lines: Error at:
\* and the timestamp, File: and the original name, Error: and the message,
\* whatever the file name and the message are.
C17_ErrorArtifactFormat ==
    \A log \in errorLogs :
        \E moved \in failedDir :
            /\ log.path = Moved(moved.timestamp, WithExtension(moved.name, "_ERROR.txt"))
            /\ Len(readlines(log)) = 3
            /\ readlines(log)[1] = <<"Error at: ", moved.timestamp>>
            /\ readlines(log)[2] = <<"File: ">> \o moved.name
            /\ readlines(log)[3][1] = "Error: "

-----------------------------------------------------------------------------
(* The events the handler takes *)

\* C18: an event starts the settling of a file only if it is a create
\* event of a path that is no directory and ends in .csv, and then it is
\* that path that settles; a directory event, a path with another extension
\* and an event that is no create event are dropped: the handler stays
\* Idle, and the watch folder, the two destinations, the error logs and the
\* store stay as they are.
C18_EventFiltering ==
    /\ [][(queue' # queue /\ arrivals' = arrivals) =>
             IF /\ Head(queue).event_type = "created"
                /\ ~Head(queue).is_directory
                /\ Head(queue).src_path[Len(Head(queue).src_path)] = ".csv"
             THEN /\ handler' = "Settling"
                  /\ filepath' = Head(queue).src_path
             ELSE /\ handler = "Idle" /\ handler' = "Idle"
                  /\ UNCHANGED <<watchFolder, processedDir, failedDir, errorLogs,
                                 store, filepath, timestamp, stage, df, pipeVars>>]_vars
    /\ [][(handler # "Settling" /\ handler' = "Settling") =>
             /\ queue # <<>>
             /\ queue' = Tail(queue)
             /\ IsCsvCreate(Head(queue))]_vars

\* a file was handled and the event of its modification, queued behind its
\* create event, has been dropped
C18_Witness ==
    /\ Dispatched = 2
    /\ arrivals[2].event_type = "modified"
    /\ handler = "Idle"
    /\ Cardinality(Routed) = 1

-----------------------------------------------------------------------------
(* The store and the destinations *)

\* the commits of the file moved under that name
CommitsOf(moved) ==
    {k \in 1..Len(store) :
        store[k].file = moved.name /\ store[k].timestamp = moved.timestamp}

\* C19: rows are committed only for files that end in the processed
\* directory: a file is moved to processed only after its insert has
\* returned the number of its clean rows, no file of the failed directory
\* has a committed row, and once the handler is Idle every commit belongs
\* to a file of the processed directory.
C19_CommitOnlyForProcessed ==
    /\ [][processedDir' # processedDir =>
             /\ stage = "Inserted"
             /\ processedDir' = processedDir \cup {Moved(timestamp, filepath)}
             /\ (returned.rows # <<>>) =>
                   Cardinality(CommitsOf(Moved(timestamp, filepath))) = 1]_vars
    /\ [](\A moved \in failedDir : CommitsOf(moved) = {})
    /\ [](handler = "Idle" =>
             \A k \in 1..Len(store) :
                 Moved(store[k].timestamp, store[k].file) \in processedDir)

-----------------------------------------------------------------------------
(* The columns the clean batch depends on, under Spec *)

KeyColumns == {"date", "description", "amount"}

\* two raw batches with the required columns whose rows agree, one by one,
\* on date, description and amount
Agree(f, g) ==
    /\ RequiredColumns \subseteq f.columns
    /\ RequiredColumns \subseteq g.columns
    /\ Len(f.rows) = Len(g.rows)
    /\ \A i \in 1..Len(f.rows) : \A c \in KeyColumns : f.rows[i][c] = g.rows[i][c]

\* the same rows are copies of an earlier row in both
SameDuplicates(f, g) ==
    \A i \in 1..Len(f.rows) : FirstOccurrence(f.rows, i) <=> FirstOccurrence(g.rows, i)

\* what the file being handled has given: the returned batch or the error
Outcome ==
    IF stage = "Done" THEN Result(NoError, returned) ELSE Result(error, NoFrame)

PipelineEnded == stage = "Done" \/ (PipelineFailed /\ df # NoFrame)

\* C20 as stated: the clean batch does not depend on the input category,
\* transaction_type or extra columns: every raw batch that agrees with the
\* file on date, description and amount gives the same clean batch.
C20_IgnoresOtherColumns ==
    PipelineEnded =>
        \A g \in Frames : Agree(df, g) => clean_transaction_data(g) = Outcome

\* C20, amended: the other columns count only in deduplication, which
\* compares whole rows: every raw batch that agrees with the file on date,
\* description and amount, and in which the same rows are copies of an
\* earlier row, gives the same clean batch or the same failure; and the
\* file itself gives what clean_transaction_data gives for its frame.
C20_OtherColumnsOnlyInDedup ==
    PipelineEnded =>
        /\ clean_transaction_data(df) = Outcome
        /\ \A g \in Frames :
              (Agree(df, g) /\ SameDuplicates(df, g)) =>
                  clean_transaction_data(g) = Outcome

\* the file holds the STARBUCKS row twice, with category Food and with
\* category Misc and a note, and two records have been returned
C20_Witness ==
    /\ stage = "Done"
    /\ Len(df.rows) = 2
    /\ Len(returned.rows) = 2
    /\ df.rows[1]["category"] # df.rows[2]["category"]
    /\ \A c \in KeyColumns : df.rows[1][c] = df.rows[2][c]
    /\ \E g \in Frames : g # df /\ Agree(df, g) /\ SameDuplicates(df, g)

-----------------------------------------------------------------------------
(* The label Unknown and the clean gate, under Spec *)

SignLabels == {Label("Credit"), Label("Debit"), Label("Neutral")}

\* every record of the batch has the label of a sign
NoUnknown(frame) ==
    \A i \in 1..Len(frame.rows) : frame.rows[i]["transaction_type"] \in SignLabels

\* the pipeline has passed the clean gate
PipelineSucceeded == stage = "CleanValidated" \/ returned # NoFrame

\* C21: every record of a batch the pipeline returns has the transaction
\* type Credit, Debit or Neutral, never Unknown: a row with an absent amount
\* is not in a returned batch, because its date did not parse and it was
\* dropped, and when the date of such a row parses the clean gate rejects the
\* whole batch for the null amount.
C21_NoUnknownInSuccess ==
    /\ stage = "CleanValidated" => NoUnknown(clean_df)
    /\ returned # NoFrame => NoUnknown(returned)
    /\ PipelineSucceeded =>
          \A i \in 1..Len(df.rows) :
              isna(df.rows[i]["amount"]) => ~Parses(df.rows[i]["date"])
    /\ (/\ stage = "Failed"
        /\ RequiredColumns \subseteq df.columns
        /\ \A i \in 1..Len(df.rows) : df.rows[i]["amount"].k # "str"
        /\ \E i \in Kept : isna(df.rows[i]["amount"]))
       => (CleanRejected /\ error.msg = "No nulls in amount")

\* a batch of a row with an absent amount and a bad date and of a row with a
\* negative amount has been returned: the one record is a Debit
C21_Witness ==
    /\ stage = "Done"
    /\ \E i \in 1..Len(df.rows) : isna(df.rows[i]["amount"])
    /\ Len(returned.rows) = 1
    /\ returned.rows[1]["transaction_type"] = Label("Debit")

\* a batch that passes the raw gate and has no row whose date parses
AllDatesBad ==
    /\ RequiredColumns \subseteq df.columns
    /\ df.rows # <<>>
    /\ \A i \in 1..Len(df.rows) : ~Parses(df.rows[i]["date"])

\* the store holds a commit of the file in hand
Committed ==
    \E k \in 1..Len(store) :
        store[k].file = filepath /\ store[k].timestamp = timestamp

\* C22: a batch that passes the raw gate and of which every row has an
\* unparseable date does not fail: the pipeline returns an empty clean batch,
\* the insert returns 0 and commits nothing, and the file is moved to the
\* processed destination, not to the failed one.
C22_AllBadDatesSucceed ==
    AllDatesBad =>
        /\ stage # "Failed"
        /\ handler # "Failed"
        /\ stage = "CleanValidated" => clean_df.rows = <<>>
        /\ returned # NoFrame => returned.rows = <<>>
        /\ stage = "Inserted" => rows_inserted = 0
        /\ ~Committed
        /\ handler = "Succeeded" =>
              (/\ Moved(timestamp, filepath) \in processedDir
               /\ Moved(timestamp, filepath) \notin failedDir)

=============================================================================
